---- MODULE Spec2Model ----
(***************************************************************************)
(* Model of the ancillary-data core of the uds crate (src/src/ancillary.rs)*)
(* for a 64-bit Linux target: send_ancillary, AncillaryBuf, the Ancillary  *)
(* iterator, recv_ancillary and recv_fds.                                  *)
(*                                                                         *)
(* One call is modelled at a time: from the idle state a caller starts one *)
(* operation, which then runs to its end; or it uses a connected pair of   *)
(* nonblocking seqpacket sockets (src/tests/seqpacket.rs) for a sequence   *)
(* of sends and receives of plain bytes.                                   *)
(***************************************************************************)
EXTENDS Integers, Naturals, Sequences, FiniteSets, TLC

VARIABLES
    platform,        \* build target: "gnu" or "musl" (cfg on lines 29-32)
    pc,              \* position of the running call
    caller,          \* who called recv_ancillary: "user" or "recv_fds"
    sargs,           \* arguments of send_ancillary
    needed_capacity, \* send_ancillary's local of that name
    msg,             \* the msghdr of the running call
    enc,             \* control blocks written by send_ancillary's encoder
    pass_flags,      \* flags handed to sendmsg / recvmsg
    syscalls,        \* whether this call has invoked sendmsg / recvmsg
    interrupts,      \* EINTR results so far of the system call in progress
    peer_closed,     \* environment: the peer end of the socket is closed
    sigpipe,         \* environment: SIGPIPE was raised for this process
    result,          \* what the call returned
    heap,            \* allocator accounting
    closes,          \* descriptors passed to close(), in order
    rargs,           \* arguments of recv_ancillary
    ctl,             \* control buffer content written by the OS, 4-byte words
    next_message,    \* Ancillary::next_message, byte offset or NULL
    yielded,         \* items the caller of the iterator got from next()
    flags_out,       \* recv_ancillary's *flags after the call
    fd_buf,          \* recv_fds: the caller's descriptor array
    num_fds,         \* recv_fds: local of that name
    abuf,            \* an AncillaryBuf
    queue,           \* environment: packets sent on the connection, not yet received
    sent,            \* number of packets sent on the connection
    sender_open,     \* environment: the sending end of the connection is open
    conn             \* the last operation on the connection and what it returned

vars == <<platform, pc, caller, sargs, needed_capacity, msg, enc, pass_flags,
          syscalls, interrupts, peer_closed, sigpipe, result, heap, closes,
          rargs, ctl, next_message, yielded, flags_out, fd_buf, num_fds, abuf,
          queue, sent, sender_open, conn>>

\* the state of the single calls, and the state of the seqpacket connection
callVars == <<caller, sargs, needed_capacity, msg, enc, pass_flags, syscalls,
              interrupts, peer_closed, sigpipe, result, heap, closes, rargs, ctl,
              next_message, yielded, flags_out, fd_buf, num_fds, abuf>>

connVars == <<queue, sent, sender_open, conn>>

(***************************************************************************)
(* Bounds of the model.                                                    *)
(***************************************************************************)
\* longest control chain the OS delivers in one receive
MaxBlocks == 2
\* most descriptors in one delivered SCM_RIGHTS block
MaxFdsPerBlock == 2
\* most EINTR results of one call's system call
MaxInterrupts == 2

(***************************************************************************)
(* Wide numbers.  Integers here are 32-bit, usize is 64-bit: a value that  *)
(* can pass 2^31 is kept as two limbs, hi * 2^30 + lo.                     *)
(***************************************************************************)
Limb == 2^30

W(n) == [hi |-> n \div Limb, lo |-> n % Limb]

WLe(a, b) == a.hi < b.hi \/ (a.hi = b.hi /\ a.lo <= b.lo)

WLt(a, b) == ~WLe(b, a)

WAdd(a, b) ==
    LET lo == a.lo + b.lo
    IN  [hi |-> a.hi + b.hi + lo \div Limb, lo |-> lo % Limb]

\* a - b for a >= b
WSub(a, b) ==
    IF a.lo >= b.lo THEN [hi |-> a.hi - b.hi, lo |-> a.lo - b.lo]
    ELSE [hi |-> a.hi - b.hi - 1, lo |-> a.lo + Limb - b.lo]

\* a / k rounded down, for k dividing 2^30, when the quotient fits an integer
WDiv(a, k) == a.hi * (Limb \div k) + a.lo \div k

\* the value as an integer, for values below 2^31
ToInt(a) == a.hi * Limb + a.lo

\* `as c_uint` / `as u32`: keep the low 32 bits
AsUInt(a) == [hi |-> a.hi % 4, lo |-> a.lo]

\* c_uint::max_value() = 2^32 - 1
UIntMax == [hi |-> 3, lo |-> Limb - 1]

\* i32 (c_int) max_value() = 2^31 - 1
CIntMax == [hi |-> 1, lo |-> Limb - 1]

(***************************************************************************)
(* Bit operations on flag words.                                           *)
(***************************************************************************)
RECURSIVE BitAnd(_, _)
BitAnd(a, b) ==
    IF a = 0 \/ b = 0 THEN 0
    ELSE (a % 2) * (b % 2) + 2 * BitAnd(a \div 2, b \div 2)

RECURSIVE BitOr(_, _)
BitOr(a, b) ==
    IF a = 0 THEN b
    ELSE IF b = 0 THEN a
    ELSE (IF a % 2 = 1 \/ b % 2 = 1 THEN 1 ELSE 0) + 2 * BitOr(a \div 2, b \div 2)

MSG_NOSIGNAL == 16384
MSG_CMSG_CLOEXEC == 1073741824
MSG_TRUNC == 32
MSG_CTRUNC == 8
SOL_SOCKET == 1
SCM_RIGHTS == 1
SCM_CREDENTIALS == 2

(***************************************************************************)
(* Sizes of the target's types and the CMSG_* macros of libc, which the    *)
(* code calls.  The macros compute in usize and return c_uint.             *)
(***************************************************************************)
\* mem::size_of::<cmsghdr>()
SizeofCmsghdr == 16
\* mem::size_of::<RawFd>()
SizeofRawFd == 4
\* mem::size_of::<libc::ucred>(), the raw credentials
SizeofUcred == 12
\* mem::size_of::<&[RawFd]>(), a slice reference: pointer and length
SizeofSliceRef == 16
\* mem::align_of::<cmsghdr>()
AlignofCmsghdr == 8

\* CMSG_ALIGN(len): len rounded up to a multiple of size_of::<usize>()
WCMSG_ALIGN(a) ==
    LET lo == ((a.lo + 7) \div 8) * 8
    IN  [hi |-> a.hi + lo \div Limb, lo |-> lo % Limb]

\* CMSG_SPACE(length: c_uint) -> c_uint
WCMSG_SPACE(a) == AsUInt(WAdd(WCMSG_ALIGN(a), WCMSG_ALIGN(W(SizeofCmsghdr))))

\* CMSG_LEN(length: c_uint) -> c_uint
WCMSG_LEN(a) == AsUInt(WAdd(WCMSG_ALIGN(W(SizeofCmsghdr)), a))

\* the macros on operands whose results stay below 2^31
CMSG_ALIGN(len) == ToInt(WCMSG_ALIGN(W(len)))

CMSG_SPACE(len) == ToInt(WCMSG_SPACE(W(len)))

CMSG_LEN(len) == ToInt(WCMSG_LEN(W(len)))

NULL == -1


(***************************************************************************)
(* Platform-dependent field widths (lines 29-32 and libc's msghdr).        *)
(***************************************************************************)
\* ControlLen::max_value(): usize on linux-gnu, socklen_t (u32) elsewhere;
\* TRUE when the usize value n can be represented as a ControlLen
ControlLenFits(n) == platform = "gnu" \/ WLe(n, UIntMax)

\* msg_iovlen is size_t on linux-gnu and c_int on musl;
\* TRUE when bytes.len().try_into() succeeds
IovLenFits(n) == platform = "gnu" \/ WLe(n, CIntMax)

(***************************************************************************)
(* Results and the allocator.                                              *)
(***************************************************************************)
NoResult == [tag |-> "None"]

Ok(v) == [tag |-> "Ok", val |-> v]

\* io::Error::new(ErrorKind::InvalidInput, text)
InvalidInput(text) == [tag |-> "Err", kind |-> "InvalidInput", repr |-> "Custom", what |-> text]

\* the ErrorKind std gives an OS error number
ErrorKindOf(errno) ==
    CASE errno = "EPIPE" -> "BrokenPipe"
      [] errno = "EAGAIN" -> "WouldBlock"
      [] errno = "EINTR" -> "Interrupted"
      [] errno = "EINVAL" -> "InvalidInput"
      [] OTHER -> "Other"

\* io::Error::last_os_error()
OsError(errno) == [tag |-> "Err", kind |-> ErrorKindOf(errno), repr |-> "Os", what |-> errno]

\* cvt_r!: the call is made again while it fails with ErrorKind::Interrupted
cvt_r_retries(os) == os.tag = "Err" /\ os.kind = "Interrupted"

NoHeap == [allocs |-> 0, deallocs |-> 0, live |-> 0, null_deallocs |-> 0]

\* alloc::alloc(layout): a new block, or null when the allocator fails
Alloc(h, succeeds) ==
    IF succeeds THEN [h EXCEPT !.allocs = @ + 1, !.live = @ + 1] ELSE h

\* alloc::dealloc(ptr, layout) of a block ("heap") or of a null pointer
Dealloc(h, ptr) ==
    IF ptr = "heap" THEN [h EXCEPT !.deallocs = @ + 1, !.live = @ - 1]
    ELSE [h EXCEPT !.deallocs = @ + 1, !.null_deallocs = @ + 1]

\* the user address space: no allocation of 2^47 bytes or more succeeds
AllocCanSucceed(size) == WLt(size, [hi |-> 2^17, lo |-> 0])

(***************************************************************************)
(* CMSG_FIRSTHDR and CMSG_NXTHDR of libc over a control buffer of          *)
(* controllen bytes; cmsg_len[off] is the cmsg_len field of the header at  *)
(* byte offset off.  Offsets are relative to msg_control.                  *)
(***************************************************************************)
CMSG_FIRSTHDR(controllen) ==
    IF WLe(W(SizeofCmsghdr), controllen) THEN 0 ELSE NULL

CMSG_NXTHDR(controllen, off, cmsg_len) ==
    IF cmsg_len[off] < SizeofCmsghdr THEN NULL
    ELSE LET next == off + CMSG_ALIGN(cmsg_len[off])
         IN  IF WLt(controllen, W(next + SizeofCmsghdr)) THEN NULL
             ELSE IF WLt(controllen, W(next + CMSG_ALIGN(cmsg_len[next]))) THEN NULL
             ELSE next

(***************************************************************************)
(* send_ancillary                                                          *)
(***************************************************************************)
MAX_STACK_CAPACITY == 256

\* the limit on fds.len() of line 68
MaxSendFds == 16777215

\* lines 60-74: needed_capacity for the given items
SendNeededCapacity(creds, fds_len) ==
    (IF creds THEN CMSG_LEN(SizeofUcred) ELSE 0)
    + (IF fds_len > 0 THEN CMSG_LEN(SizeofSliceRef) ELSE 0)

\* a validation without the descriptor-count check of lines 67-72
SendValidationNoFdLimit(a) ==
    IF ~IovLenFits(a.views.count) THEN InvalidInput("too many byte slices")
    ELSE NoResult

\* lines 44-49 and 67-72: the validation of send_ancillary's arguments
SendValidation(a) ==
    IF ~IovLenFits(a.views.count) THEN InvalidInput("too many byte slices")
    ELSE IF a.fds_len > 0 /\ a.fds_len > MaxSendFds
         THEN InvalidInput("too many file descriptors")
    ELSE NoResult

\* lines 79-89: which buffer msg_control points to; allocated says whether
\* alloc::alloc returned a block
SendSelectBuffer(needed, allocated) ==
    IF needed = 0 THEN "null"
    ELSE IF needed <= MAX_STACK_CAPACITY THEN "stack"
    ELSE IF allocated THEN "heap" ELSE "heap_null"

\* bytes of the buffer msg_control points to
SendBufferSize(control, needed) ==
    CASE control = "stack" -> MAX_STACK_CAPACITY
      [] control = "heap" -> needed
      [] OTHER -> 0

\* lines 91-108: the blocks the encoder writes.  uninit is the value read from
\* a header field nothing has written yet: 0 in the zeroed stack buffer,
\* anything in a fresh heap block.
SendEncode(a, needed, control, uninit) ==
    LET controllen == W(needed)
        first == CMSG_FIRSTHDR(controllen)
        credsLen == CMSG_LEN(SizeofUcred)
        unwritten == IF control = "stack" THEN 0 ELSE uninit
        LenAt(off) == IF off = first THEN credsLen ELSE unwritten
        second == IF a.creds THEN CMSG_NXTHDR(controllen, first, [o \in Nat |-> LenAt(o)]) ELSE first
        credsBlock == [off |-> first, cmsg_len |-> credsLen,
                       type |-> SCM_CREDENTIALS, data |-> SizeofUcred]
        fdsBlock == [off |-> second, cmsg_len |-> CMSG_LEN(a.fds_len * SizeofRawFd),
                     type |-> SCM_RIGHTS, data |-> a.fds_len * SizeofRawFd]
    IN  IF needed = 0 THEN << >>
        ELSE (IF a.creds THEN <<credsBlock>> ELSE << >>)
             \o (IF a.fds_len > 0 THEN <<fdsBlock>> ELSE << >>)

\* a block of the encoder written at a null header or past the end of the
\* selected buffer: undefined behaviour
SendEncodeOutOfBounds(blocks, control, needed) ==
    \E i \in DOMAIN blocks :
        \/ blocks[i].off = NULL
        \/ control = "heap_null"
        \/ blocks[i].off + SizeofCmsghdr + blocks[i].data > SendBufferSize(control, needed)

ViewInputs ==
    { [count |-> W(0), total |-> 0], [count |-> W(1), total |-> 0],
      [count |-> W(1), total |-> 5], [count |-> W(2), total |-> 5],
      [count |-> [hi |-> 2, lo |-> 0], total |-> 5] }

SendFdCounts == {0, 1, 3, 4, 5, 60, 61, MaxSendFds, MaxSendFds + 1}

CallerFlags == {0, 64, 16384 + 64}

ZeroMsg == [control |-> "null", controllen |-> W(0), flags |-> 0]

\* send_ancillary up to its first sendmsg (lines 39-109), or to the return of
\* an input-validation error
SendCall ==
    /\ pc = "idle"
    /\ \E v \in ViewInputs, n \in SendFdCounts, c \in BOOLEAN, f \in CallerFlags,
          closed \in BOOLEAN, allocated \in BOOLEAN, uninit \in {0, 2^30},
          crash \in BOOLEAN :
        LET a == [views |-> v, fds_len |-> n, creds |-> c, flags |-> f]
            invalid == SendValidation(a)
            \* creds.map(...) of line 62 runs before the descriptor check
            needed == IF invalid.tag = "Err"
                      THEN (IF IovLenFits(v.count) /\ c THEN CMSG_LEN(SizeofUcred) ELSE 0)
                      ELSE SendNeededCapacity(c, n)
            allocates == invalid.tag # "Err" /\ needed > MAX_STACK_CAPACITY
            control == SendSelectBuffer(needed, allocated)
            blocks == SendEncode(a, needed, control, uninit)
            ub == SendEncodeOutOfBounds(blocks, control, needed)
        IN  /\ allocates \/ allocated
            /\ (control = "stack" \/ needed = 0) => uninit = 0
            /\ ub \/ ~crash
            /\ sargs' = a
            /\ peer_closed' = closed
            /\ caller' = "user"
            /\ needed_capacity' = needed
            /\ IF invalid.tag = "Err"
               THEN /\ pc' = "send_done"
                    /\ result' = invalid
                    /\ msg' = ZeroMsg
                    /\ enc' = << >>
                    /\ heap' = heap
               ELSE /\ pc' = IF ub /\ crash THEN "send_ub" ELSE "send_sys"
                    /\ result' = NoResult
                    /\ msg' = [control |-> control, controllen |-> W(needed), flags |-> 0]
                    /\ enc' = blocks
                    /\ heap' = IF allocates THEN Alloc(heap, allocated) ELSE heap
    /\ UNCHANGED <<platform, pass_flags, syscalls, interrupts, sigpipe, closes, rargs,
                   ctl, next_message, yielded, flags_out, fd_buf, num_fds, abuf>>
    /\ UNCHANGED connVars


\* the caller's flags passed on as they are
SendPassFlagsNoSignalFlag(flags) == flags

\* line 111: the flags sendmsg is called with
SendPassFlags(flags) == BitOr(flags, MSG_NOSIGNAL)

\* a send that returns every result of sendmsg, interruption included
SendReturnsInterrupt(os) == FALSE

\* line 111: whether cvt_r! makes the call again after this result
SendRetries(os) == cvt_r_retries(os)

\* lines 113-116: the release of the heap control buffer
SendRelease(h, needed, control) ==
    IF needed > MAX_STACK_CAPACITY THEN Dealloc(h, control) ELSE h

\* the kernel's limit on the number of byte views of one call (UIO_MAXIOV)
IovCountAccepted(count) == WLe(count, W(1024))

\* the kernel accepts a control buffer whose blocks all end inside msg_controllen
ControlAccepted(blocks, controllen) ==
    \A i \in DOMAIN blocks :
        blocks[i].off # NULL /\ WLe(W(blocks[i].off + blocks[i].cmsg_len), controllen)

\* what one sendmsg() can answer: interruption by a signal, or the call's outcome
SendmsgResults ==
    (IF interrupts < MaxInterrupts THEN {OsError("EINTR")} ELSE {})
    \cup (IF ~IovCountAccepted(sargs.views.count) THEN {OsError("EMSGSIZE")}
          ELSE IF ~ControlAccepted(enc, msg.controllen) THEN {OsError("EINVAL")}
          ELSE IF peer_closed THEN {OsError("EPIPE")}
          ELSE {Ok(sargs.views.total), OsError("EAGAIN")})

\* a write to a socket whose peer is closed raises SIGPIPE unless MSG_NOSIGNAL is passed
RaisesSigpipe(os, flags) ==
    os.tag = "Err" /\ os.what = "EPIPE" /\ BitAnd(flags, MSG_NOSIGNAL) = 0

\* one sendmsg of line 111 and, when cvt_r! does not repeat it, the rest of
\* send_ancillary (lines 113-118)
SendMsg ==
    /\ pc = "send_sys"
    /\ \E os \in SendmsgResults :
        LET flags == SendPassFlags(sargs.flags)
        IN  /\ pass_flags' = flags
            /\ syscalls' = TRUE
            /\ sigpipe' = (sigpipe \/ RaisesSigpipe(os, flags))
            /\ IF SendRetries(os)
               THEN /\ interrupts' = interrupts + 1
                    /\ UNCHANGED <<pc, result, heap>>
               ELSE /\ interrupts' = 0
                    /\ pc' = "send_done"
                    /\ result' = os
                    /\ heap' = SendRelease(heap, needed_capacity, msg.control)
    /\ UNCHANGED <<platform, caller, sargs, needed_capacity, msg, enc, peer_closed,
                   closes, rargs, ctl, next_message, yielded, flags_out, fd_buf,
                   num_fds, abuf>>
    /\ UNCHANGED connVars

(***************************************************************************)
(* AncillaryBuf                                                            *)
(***************************************************************************)
RECURSIVE WMul(_, _)
WMul(a, k) == IF k = 0 THEN W(0) ELSE WAdd(a, WMul(a, k - 1))

NoBuf == [state |-> "none", capacity |-> W(0), ptr |-> "null",
          ctor |-> "none", arg |-> W(0)]

\* lines 150-167: with_capacity(bytes); allocated says whether alloc::alloc
\* returned a block.  Layout::from_size_align cannot fail for the sizes of the
\* model, all below 2^61.
with_capacity_heap_from(threshold, bytes, allocated) ==
    IF WLe(bytes, W(threshold))
    THEN [state |-> "live", capacity |-> bytes, ptr |-> "null"]
    ELSE IF ControlLenFits(bytes)
    THEN [state |-> "live", capacity |-> bytes,
          ptr |-> IF allocated THEN "heap" ELSE "null"]
    ELSE [state |-> "panic", capacity |-> W(0), ptr |-> "null"]

with_capacity(bytes, allocated) ==
    with_capacity_heap_from(MAX_STACK_CAPACITY, bytes, allocated)

\* whether with_capacity(bytes) calls alloc::alloc
with_capacity_allocates(bytes) ==
    WLt(W(MAX_STACK_CAPACITY), bytes) /\ ControlLenFits(bytes)

\* lines 181-183: max_fds
max_fds == WDiv(WSub(UIntMax, WCMSG_SPACE(W(0))), SizeofRawFd)

\* lines 184-191: the capacity with_fd_capacity(n) asks with_capacity for,
\* unless it panics
fd_capacity_bytes(n) ==
    IF n = 0 THEN [panic |-> FALSE, bytes |-> W(0)]
    ELSE IF n <= max_fds
    THEN [panic |-> FALSE,
          bytes |-> WCMSG_SPACE(AsUInt(WMul(W(n), SizeofRawFd)))]
    ELSE [panic |-> TRUE, bytes |-> W(0)]

\* lines 168-193: with_fd_capacity(n)
with_fd_capacity(n, allocated) ==
    LET c == fd_capacity_bytes(n)
    IN  IF c.panic THEN [state |-> "panic", capacity |-> W(0), ptr |-> "null"]
        ELSE with_capacity(c.bytes, allocated)

\* whether with_fd_capacity(n) calls alloc::alloc
with_fd_capacity_allocates(n) ==
    LET c == fd_capacity_bytes(n)
    IN  ~c.panic /\ with_capacity_allocates(c.bytes)

\* lines 195-203: Default
default_buf == [state |-> "live", capacity |-> W(MAX_STACK_CAPACITY), ptr |-> "null"]

\* lines 206-224: Deref / DerefMut: the region and length of the byte range
Deref(b) ==
    IF WLe(b.capacity, W(MAX_STACK_CAPACITY))
    THEN [region |-> "on_stack", len |-> b.capacity]
    ELSE [region |-> IF b.ptr = "heap" THEN "heap" ELSE "null", len |-> b.capacity]

\* lines 134-146: Drop
AncillaryBufDrop(h, b) ==
    IF WLt(W(MAX_STACK_CAPACITY), b.capacity) THEN Dealloc(h, b.ptr) ELSE h

CapacityInputs ==
    { W(0), W(1), W(255), W(256), W(257), W(264), UIntMax,
      [hi |-> 4, lo |-> 0], [hi |-> 2^20, lo |-> 0] }

FdCapacityInputs == {0, 1, 2, 3, 4, 60, 61, 62, 2^29, max_fds - 1, max_fds, max_fds + 1}

\* the outcomes of alloc::alloc for a request of the given size
AllocOutcomes(size) == IF AllocCanSucceed(size) THEN {TRUE, FALSE} ELSE {FALSE}

\* AncillaryBuf::with_capacity(bytes)
BufWithCapacity ==
    /\ pc = "idle"
    /\ \E bytes \in CapacityInputs, allocated \in BOOLEAN :
        LET b == with_capacity(bytes, allocated)
        IN  /\ IF with_capacity_allocates(bytes)
               THEN allocated \in AllocOutcomes(bytes) ELSE allocated
            /\ abuf' = b @@ [ctor |-> "with_capacity", arg |-> bytes]
            /\ heap' = IF with_capacity_allocates(bytes) THEN Alloc(heap, allocated) ELSE heap
            /\ pc' = IF b.state = "panic" THEN "buf_panic" ELSE "buf_live"
    /\ UNCHANGED <<platform, caller, sargs, needed_capacity, msg, enc, pass_flags,
                   syscalls, interrupts, peer_closed, sigpipe, result, closes, rargs,
                   ctl, next_message, yielded, flags_out, fd_buf, num_fds>>
    /\ UNCHANGED connVars

\* AncillaryBuf::with_fd_capacity(n)
BufWithFdCapacity ==
    /\ pc = "idle"
    /\ \E n \in FdCapacityInputs, allocated \in BOOLEAN :
        LET b == with_fd_capacity(n, allocated)
            allocates == with_fd_capacity_allocates(n)
        IN  /\ IF allocates THEN allocated \in AllocOutcomes(fd_capacity_bytes(n).bytes)
               ELSE allocated
            /\ abuf' = b @@ [ctor |-> "with_fd_capacity", arg |-> W(n)]
            /\ heap' = IF allocates THEN Alloc(heap, allocated) ELSE heap
            /\ pc' = IF b.state = "panic" THEN "buf_panic" ELSE "buf_live"
    /\ UNCHANGED <<platform, caller, sargs, needed_capacity, msg, enc, pass_flags,
                   syscalls, interrupts, peer_closed, sigpipe, result, closes, rargs,
                   ctl, next_message, yielded, flags_out, fd_buf, num_fds>>
    /\ UNCHANGED connVars

\* AncillaryBuf::default()
BufDefault ==
    /\ pc = "idle"
    /\ abuf' = default_buf @@ [ctor |-> "default", arg |-> W(0)]
    /\ pc' = "buf_live"
    /\ UNCHANGED <<platform, caller, sargs, needed_capacity, msg, enc, pass_flags,
                   syscalls, interrupts, peer_closed, sigpipe, result, heap, closes,
                   rargs, ctl, next_message, yielded, flags_out, fd_buf, num_fds>>
    /\ UNCHANGED connVars

\* the buffer goes out of scope
BufDrop ==
    /\ pc = "buf_live"
    /\ heap' = AncillaryBufDrop(heap, abuf)
    /\ abuf' = [abuf EXCEPT !.state = "dropped"]
    /\ pc' = "buf_dropped"
    /\ UNCHANGED <<platform, caller, sargs, needed_capacity, msg, enc, pass_flags,
                   syscalls, interrupts, peer_closed, sigpipe, result, closes, rargs,
                   ctl, next_message, yielded, flags_out, fd_buf, num_fds>>
    /\ UNCHANGED connVars


(***************************************************************************)
(* The control chain the OS writes on a receive.  A chain is a sequence of *)
(* blocks; each is written as a cmsghdr (cmsg_len: 8 bytes, cmsg_level,    *)
(* cmsg_type: 4 bytes each) and its payload, padded to the alignment of a  *)
(* header.  The buffer is kept as 4-byte words, index 1 at byte offset 0.  *)
(***************************************************************************)
BlockKinds ==
    { [type |-> "rights", n |-> k] : k \in 0..MaxFdsPerBlock }
    \cup { [type |-> "creds", n |-> 0], [type |-> "other", n |-> 0] }

Chains == UNION { [1..len -> BlockKinds] : len \in 0..MaxBlocks }

\* a credentials block the OS cut to the space left in the control buffer:
\* its cmsg_len is that space, 24 bytes, and only pid and uid were written
CutBlock == [type |-> "creds_cut", n |-> 0]

\* a chain whose last block did not fit and was cut
CutChains == { Append(ch, CutBlock) : ch \in { c \in Chains : Len(c) < MaxBlocks } }

\* the i-th descriptor the kernel installs for this receive: the lowest free
\* numbers after stdin, stdout and stderr
NewFd(i) == 2 + i

\* payload words of a block; before is the number of descriptors delivered
\* by the blocks in front of it
PayloadWords(b, before) ==
    CASE b.type = "rights" -> [i \in 1..b.n |-> NewFd(before + i)]
      [] b.type = "creds" -> <<4711, 1000, 1000>>
      [] b.type = "creds_cut" -> <<4711, 1000>>
      [] OTHER -> <<0, 0, 0, 0>>

HeaderWords(b, payload) ==
    << CMSG_LEN(SizeofRawFd * Len(payload)), 0,
       IF b.type = "other" THEN 0 ELSE SOL_SOCKET,
       CASE b.type = "rights" -> SCM_RIGHTS
         [] b.type \in {"creds", "creds_cut"} -> SCM_CREDENTIALS
         [] OTHER -> 8 >>

BlockWords(b, before) ==
    LET payload == PayloadWords(b, before)
    IN  HeaderWords(b, payload) \o payload
        \o (IF Len(payload) % 2 = 1 THEN <<0>> ELSE << >>)

RECURSIVE ChainWords(_, _)
ChainWords(chain, before) ==
    IF chain = << >> THEN << >>
    ELSE BlockWords(Head(chain), before)
         \o ChainWords(Tail(chain), before + Head(chain).n)

\* every descriptor the chain carries, in delivery order
RECURSIVE ChainFds(_, _)
ChainFds(chain, before) ==
    IF chain = << >> THEN << >>
    ELSE (IF Head(chain).type = "rights"
          THEN [i \in 1..Head(chain).n |-> NewFd(before + i)] ELSE << >>)
         \o ChainFds(Tail(chain), before + Head(chain).n)

(***************************************************************************)
(* The Ancillary iterator                                                  *)
(***************************************************************************)
\* the word of buffer c at byte offset off
WordAt(c, off) == c[off \div 4 + 1]

\* CMSG_DATA(header): the payload follows the header
CMSG_DATA(off) == off + CMSG_ALIGN(SizeofCmsghdr)

\* what a read through next_message can see: the bytes the OS wrote and,
\* behind them, words that are not part of the received control data
Memory(c, stray) == c \o <<stray, stray, stray>>

\* lines 283-297: one past the last byte next() reads of the block at off:
\* its header, the descriptors that cmsg_len announces, or a whole
\* credentials record
NextReadEnd(c, off) ==
    LET payload_bytes == WordAt(c, off) - CMSG_LEN(0)
        level == WordAt(c, off + 8)
        type == WordAt(c, off + 12)
    IN  IF level = SOL_SOCKET /\ type = SCM_RIGHTS
        THEN CMSG_DATA(off) + SizeofRawFd * (payload_bytes \div SizeofRawFd)
        ELSE IF level = SOL_SOCKET /\ type = SCM_CREDENTIALS
        THEN CMSG_DATA(off) + SizeofUcred
        ELSE off + SizeofCmsghdr

\* whether next() or the drop, going on from off, read past the end of a
\* buffer of size bytes
RECURSIVE ReadsPastBuffer(_, _, _, _)
ReadsPastBuffer(c, controllen, off, size) ==
    IF off = NULL THEN FALSE
    ELSE \/ WLt(size, W(NextReadEnd(c, off)))
         \/ ReadsPastBuffer(c, controllen,
                            CMSG_NXTHDR(controllen, off, [o \in Nat |-> WordAt(c, o)]), size)

\* lines 278-304: next() for a non-null next_message: the item and the new
\* next_message
AncillaryNext(c, controllen, off) ==
    LET msg_bytes == WordAt(c, off)
        payload_bytes == msg_bytes - CMSG_LEN(0)
        level == WordAt(c, off + 8)
        type == WordAt(c, off + 12)
        count == payload_bytes \div SizeofRawFd
        first_fd == CMSG_DATA(off)
        LenAt(o) == WordAt(c, o)
        item == IF level = SOL_SOCKET /\ type = SCM_RIGHTS
                THEN [kind |-> "Fds",
                      fds |-> [i \in 1..count |-> WordAt(c, first_fd + SizeofRawFd * (i - 1))]]
                ELSE IF level = SOL_SOCKET /\ type = SCM_CREDENTIALS
                THEN [kind |-> "Credentials",
                      pid |-> WordAt(c, first_fd),
                      uid |-> WordAt(c, first_fd + 4),
                      gid |-> WordAt(c, first_fd + 8)]
                ELSE [kind |-> "Unsupported"]
    IN  [item |-> item, next |-> CMSG_NXTHDR(controllen, off, [o \in Nat |-> LenAt(o)])]

\* a drop that looks at the next block only
AncillaryDropFirstOnly(c, controllen, off) ==
    IF off = NULL THEN << >>
    ELSE LET r == AncillaryNext(c, controllen, off)
         IN  IF r.item.kind = "Fds" THEN r.item.fds ELSE << >>

\* lines 306-317: Drop: the descriptors closed by draining the iterator from off
RECURSIVE AncillaryDrop(_, _, _)
AncillaryDrop(c, controllen, off) ==
    IF off = NULL THEN << >>
    ELSE LET r == AncillaryNext(c, controllen, off)
         IN  (IF r.item.kind = "Fds" THEN r.item.fds ELSE << >>)
             \o AncillaryDrop(c, controllen, r.next)

\* a predicate that takes any msg_flags bit for truncation
ancillary_truncated_any_flag(m) == m.flags # 0

\* lines 320-326
ancillary_truncated(m) == BitAnd(m.flags, MSG_CTRUNC) # 0

datagram_truncated(m) == BitAnd(m.flags, MSG_TRUNC) # 0

(***************************************************************************)
(* recv_ancillary                                                          *)
(***************************************************************************)
\* lines 339-344 and 355-363: the validation of recv_ancillary's arguments
RecvValidation(a) ==
    IF ~IovLenFits(a.bufs.count) THEN InvalidInput("too many content buffers")
    ELSE IF WLt(W(0), a.anc_len) /\ a.anc_addr % AlignofCmsghdr # 0
         THEN InvalidInput("ancillary buffer is not properly aligned")
    ELSE IF WLt(W(0), a.anc_len) /\ ~ControlLenFits(a.anc_len)
         THEN InvalidInput("ancillary buffer is too big")
    ELSE NoResult

\* lines 346-347 and 364-365: msg_control and msg_controllen
RecvMsghdr(a) ==
    IF WLt(W(0), a.anc_len)
    THEN [control |-> "caller", controllen |-> a.anc_len, flags |-> 0]
    ELSE ZeroMsg

\* line 368
RecvPassFlags(flags) == BitOr(BitOr(flags, MSG_NOSIGNAL), MSG_CMSG_CLOEXEC)

\* line 369: whether cvt_r! makes the call again after this result
RecvRetries(os) == cvt_r_retries(os)

OneBuf == [count |-> W(1), cap |-> 8]

RecvInputs ==
    { [bufs |-> OneBuf, anc_len |-> W(len), anc_addr |-> 0, flags |-> 0] :
          len \in {0, 24, 56} }
    \cup { [bufs |-> OneBuf, anc_len |-> W(0), anc_addr |-> 0, flags |-> f] :
          f \in {64, 16384 + 64} }
    \cup { [bufs |-> [count |-> W(0), cap |-> 0], anc_len |-> W(24), anc_addr |-> 0, flags |-> 0],
           [bufs |-> [count |-> [hi |-> 2, lo |-> 0], cap |-> 8], anc_len |-> W(24),
            anc_addr |-> 0, flags |-> 0],
           [bufs |-> OneBuf, anc_len |-> W(24), anc_addr |-> 4, flags |-> 0],
           [bufs |-> OneBuf, anc_len |-> W(0), anc_addr |-> 4, flags |-> 0],
           [bufs |-> OneBuf, anc_len |-> [hi |-> 4, lo |-> 0], anc_addr |-> 0, flags |-> 0] }

\* recv_ancillary up to its first recvmsg (lines 334-366), or to the return of
\* an input-validation error
RecvCall ==
    /\ pc = "idle"
    /\ \E a \in RecvInputs :
        LET invalid == RecvValidation(a)
        IN  /\ rargs' = a
            /\ caller' = "user"
            /\ IF invalid.tag = "Err"
               THEN /\ pc' = "recv_done"
                    /\ result' = invalid
                    /\ msg' = ZeroMsg
               ELSE /\ pc' = "recv_sys"
                    /\ result' = NoResult
                    /\ msg' = RecvMsghdr(a)
    /\ UNCHANGED <<platform, sargs, needed_capacity, enc, pass_flags, syscalls,
                   interrupts, peer_closed, sigpipe, heap, closes, ctl, next_message,
                   yielded, flags_out, fd_buf, num_fds, abuf>>
    /\ UNCHANGED connVars

\* msg_flags values the OS can leave: the two truncation flags, each set or not,
\* with or without other flags (MSG_EOR, MSG_CMSG_CLOEXEC)
OsMsgFlags ==
    { t + c : t \in {0, MSG_TRUNC}, c \in {0, MSG_CTRUNC} }
    \cup { 128 + MSG_CMSG_CLOEXEC, MSG_TRUNC + MSG_CTRUNC + 128 + MSG_CMSG_CLOEXEC }

\* the errors one recvmsg() can answer: interruption by a signal, a view count
\* the kernel refuses, or nothing to receive
RecvmsgErrors ==
    (IF interrupts < MaxInterrupts THEN {OsError("EINTR")} ELSE {})
    \cup (IF ~IovCountAccepted(rargs.bufs.count) THEN {OsError("EMSGSIZE")}
          ELSE {OsError("EAGAIN")})

\* the words of every control chain the OS can write whole
ChainTable == { ChainWords(ch, 0) : ch \in Chains }

\* the words of every control chain whose last block the OS cut
CutChainTable == { ChainWords(ch, 0) : ch \in CutChains }

\* the control chains, as words, the OS can write into a control buffer of
\* controllen bytes: the whole chains that fit it, and the cut chains that
\* fill it
RecvmsgChains(controllen) ==
    { words \in ChainTable : WLe(W(SizeofRawFd * Len(words)), controllen) }
    \cup { words \in CutChainTable : W(SizeofRawFd * Len(words)) = controllen }

\* the byte counts a successful recvmsg can answer
RecvmsgCounts == { Ok(n) : n \in {0, rargs.bufs.cap} }

\* one recvmsg of line 369 and, when cvt_r! does not repeat it, the rest of
\* recv_ancillary (lines 370-376); for recv_fds the `?` of line 385 returns the
\* error and drops the AncillaryBuf. A successful recvmsg answers a received
\* byte count with the msg_flags and a control chain written
RecvMsg ==
    /\ pc = "recv_sys"
    /\ pass_flags' = RecvPassFlags(rargs.flags)
    /\ syscalls' = TRUE
    /\ \/ \E os \in RecvmsgErrors :
            IF RecvRetries(os)
            THEN /\ interrupts' = interrupts + 1
                 /\ UNCHANGED <<pc, result, msg, ctl, next_message, flags_out, heap, abuf>>
            ELSE /\ interrupts' = 0
                 /\ result' = os
                 /\ pc' = IF caller = "recv_fds" THEN "rf_done" ELSE "recv_done"
                 /\ heap' = IF caller = "recv_fds" THEN AncillaryBufDrop(heap, abuf) ELSE heap
                 /\ abuf' = IF caller = "recv_fds" THEN [abuf EXCEPT !.state = "dropped"] ELSE abuf
                 /\ UNCHANGED <<msg, ctl, next_message, flags_out>>
       \/ /\ IovCountAccepted(rargs.bufs.count)
          /\ interrupts' = 0
          /\ pc' = IF caller = "recv_fds" THEN "rf_loop" ELSE "iter"
          /\ flags_out' \in OsMsgFlags
          /\ result' \in RecvmsgCounts
          /\ ctl' \in RecvmsgChains(msg.controllen)
          \* the OS reports a cut chain
          /\ ctl' \in CutChainTable => BitAnd(flags_out', MSG_CTRUNC) # 0
          /\ msg' = [control |-> msg.control,
                     controllen |-> W(SizeofRawFd * Len(ctl')),
                     flags |-> flags_out']
          /\ next_message' = CMSG_FIRSTHDR(msg'.controllen)
          /\ UNCHANGED <<heap, abuf>>
    /\ UNCHANGED <<platform, caller, sargs, needed_capacity, enc, peer_closed, sigpipe,
                   closes, rargs, yielded, fd_buf, num_fds>>
    /\ UNCHANGED connVars

\* what a word behind the caller's buffer can hold
StrayWords == {0, 57005}

\* the caller of recv_ancillary takes the next item from the iterator; at the
\* end of the chain next() returns None and changes nothing.  next() does not
\* compare cmsg_len with what it reads (line 295): a read past the caller's
\* buffer is undefined, it yields whatever lies there or ends the program
IterNext ==
    /\ pc = "iter"
    /\ next_message # NULL
    /\ \E stray \in StrayWords :
          LET mem == Memory(ctl, stray)
              r == AncillaryNext(mem, msg.controllen, next_message)
          IN  \/ /\ yielded' = Append(yielded, r.item)
                 /\ next_message' = r.next
                 /\ pc' = pc
              \/ /\ WLt(rargs.anc_len, W(NextReadEnd(mem, next_message)))
                 /\ pc' = "iter_ub"
                 /\ UNCHANGED <<yielded, next_message>>
    /\ UNCHANGED <<platform, caller, sargs, needed_capacity, msg, enc, pass_flags,
                   syscalls, interrupts, peer_closed, sigpipe, result, heap, closes,
                   rargs, ctl, flags_out, fd_buf, num_fds, abuf>>
    /\ UNCHANGED connVars

\* the caller drops the iterator; a read past the caller's buffer (see
\* IterNext) may end the program
IterDrop ==
    /\ pc = "iter"
    /\ \E stray \in StrayWords :
          LET mem == Memory(ctl, stray)
          IN  \/ /\ closes' = closes \o AncillaryDrop(mem, msg.controllen, next_message)
                 /\ next_message' = NULL
                 /\ pc' = "iter_dropped"
              \/ /\ ReadsPastBuffer(mem, msg.controllen, next_message, rargs.anc_len)
                 /\ pc' = "iter_ub"
                 /\ UNCHANGED <<closes, next_message>>
    /\ UNCHANGED <<platform, caller, sargs, needed_capacity, msg, enc, pass_flags,
                   syscalls, interrupts, peer_closed, sigpipe, result, heap, rargs,
                   ctl, yielded, flags_out, fd_buf, num_fds, abuf>>
    /\ UNCHANGED connVars


(***************************************************************************)
(* recv_fds                                                                *)
(***************************************************************************)
Min(a, b) == IF a <= b THEN a ELSE b

\* a drain step that keeps what fits and closes nothing
RecvFdsKeepNoClose(fds, buf, n) ==
    LET can_keep == Min(Len(fds), Len(buf) - n)
    IN  [fd_buf |-> [i \in 1..Len(buf) |->
                        IF n < i /\ i <= n + can_keep THEN fds[i - n] ELSE buf[i]],
         num_fds |-> n + can_keep,
         closed |-> << >>]

\* lines 393-398: what one file-descriptor-set item does to fd_buf and num_fds,
\* and the descriptors it closes
RecvFdsKeep(fds, buf, n) ==
    LET can_keep == Min(Len(fds), Len(buf) - n)
    IN  [fd_buf |-> [i \in 1..Len(buf) |->
                        IF n < i /\ i <= n + can_keep THEN fds[i - n] ELSE buf[i]],
         num_fds |-> n + can_keep,
         closed |-> SubSeq(fds, can_keep + 1, Len(fds))]

RecvFdsInputs ==
    { [m |-> m, bufs |-> OneBuf] : m \in {0, 1, 2, 3, 8, 61} }
    \cup { [m |-> 61, bufs |-> [count |-> [hi |-> 2, lo |-> 0], cap |-> 8]] }

\* recv_fds up to the first recvmsg of its recv_ancillary call (lines 384-385)
RecvFdsCall ==
    /\ pc = "idle"
    /\ \E in \in RecvFdsInputs, allocated \in BOOLEAN :
        LET b == with_fd_capacity(in.m, allocated)
            allocates == with_fd_capacity_allocates(in.m)
            slice == Deref(b)
            a == [bufs |-> in.bufs, anc_len |-> slice.len, anc_addr |-> 0, flags |-> 0]
            invalid == RecvValidation(a)
            h == IF allocates THEN Alloc(heap, allocated) ELSE heap
        IN  /\ IF allocates THEN allocated \in AllocOutcomes(fd_capacity_bytes(in.m).bytes)
               ELSE allocated
            /\ caller' = "recv_fds"
            /\ fd_buf' = [i \in 1..in.m |-> -1]
            /\ num_fds' = 0
            /\ rargs' = a
            /\ IF slice.region = "null"
               \* &mut *ancillary_buf is a slice made from a null pointer
               THEN /\ pc' = "rf_ub"
                    /\ abuf' = b @@ [ctor |-> "with_fd_capacity", arg |-> W(in.m)]
                    /\ heap' = h
                    /\ result' = NoResult
                    /\ msg' = ZeroMsg
               ELSE IF invalid.tag = "Err"
               THEN /\ pc' = "rf_done"
                    /\ abuf' = [state |-> "dropped", capacity |-> b.capacity, ptr |-> b.ptr,
                                ctor |-> "with_fd_capacity", arg |-> W(in.m)]
                    /\ heap' = AncillaryBufDrop(h, b)
                    /\ result' = invalid
                    /\ msg' = ZeroMsg
               ELSE /\ pc' = "recv_sys"
                    /\ abuf' = b @@ [ctor |-> "with_fd_capacity", arg |-> W(in.m)]
                    /\ heap' = h
                    /\ result' = NoResult
                    /\ msg' = RecvMsghdr(a)
    /\ UNCHANGED <<platform, sargs, needed_capacity, enc, pass_flags, syscalls,
                   interrupts, peer_closed, sigpipe, closes, ctl, next_message,
                   yielded, flags_out>>
    /\ UNCHANGED connVars

\* one iteration of the loop of lines 387-400; the buffer is the front of the
\* 256 zeroed bytes of on_stack (line 165), so a read behind a cut block
\* stays inside the array and finds zeroes
RecvFdsStep ==
    /\ pc = "rf_loop"
    /\ next_message # NULL
    /\ LET r == AncillaryNext(Memory(ctl, 0), msg.controllen, next_message)
           k == IF r.item.kind = "Fds" THEN RecvFdsKeep(r.item.fds, fd_buf, num_fds)
                ELSE [fd_buf |-> fd_buf, num_fds |-> num_fds, closed |-> << >>]
       IN  /\ next_message' = r.next
           /\ fd_buf' = k.fd_buf
           /\ num_fds' = k.num_fds
           /\ closes' = closes \o k.closed
    /\ UNCHANGED <<platform, pc, caller, sargs, needed_capacity, msg, enc, pass_flags,
                   syscalls, interrupts, peer_closed, sigpipe, result, heap, rargs,
                   ctl, yielded, flags_out, abuf>>
    /\ UNCHANGED connVars

\* the loop ends: the iterator and the AncillaryBuf are dropped and recv_fds
\* returns (line 401)
RecvFdsReturn ==
    /\ pc = "rf_loop"
    /\ next_message = NULL
    /\ closes' = closes \o AncillaryDrop(ctl, msg.controllen, next_message)
    /\ heap' = AncillaryBufDrop(heap, abuf)
    /\ abuf' = [abuf EXCEPT !.state = "dropped"]
    /\ result' = Ok(<<result.val, num_fds>>)
    /\ pc' = "rf_done"
    /\ UNCHANGED <<platform, caller, sargs, needed_capacity, msg, enc, pass_flags,
                   syscalls, interrupts, peer_closed, sigpipe, rargs, ctl, next_message,
                   yielded, flags_out, fd_buf, num_fds>>
    /\ UNCHANGED connVars

(***************************************************************************)
(* A connected pair of nonblocking seqpacket sockets, as the tests of      *)
(* src/tests/seqpacket.rs use it: one end sends plain bytes with           *)
(* send_ancillary (no descriptors, no credentials), the other receives     *)
(* with recv_ancillary and an empty ancillary buffer and reports the byte  *)
(* count and datagram_truncated().  A byte is a number; the j-th byte of   *)
(* the k-th packet sent is 10 * k + j, an unwritten byte of a receive      *)
(* buffer is 0.                                                            *)
(***************************************************************************)
\* most byte views of one send or one receive
MaxViews == 2
\* most packets sent on the connection
MaxPackets == 2

\* no is the number of the packet the operation sent or received (0: none),
\* len that packet's length
NoConnOp == [op |-> "none", views |-> << >>, result |-> NoResult, no |-> 0, len |-> 0]

\* the lengths of the views of one call: up to MaxViews views of one or two
\* bytes, or one empty view
ViewLengths == UNION { [1..n -> {1, 2}] : n \in 0..MaxViews } \cup { <<0>> }

RECURSIVE TotalLength(_)
TotalLength(lens) ==
    IF lens = << >> THEN 0 ELSE Head(lens) + TotalLength(Tail(lens))

\* the views of send number k: the payload 10k+1, 10k+2, ... cut into views of
\* the given lengths
PayloadViews(k, lens) ==
    [i \in 1..Len(lens) |->
        [j \in 1..lens[i] |-> 10 * k + TotalLength(SubSeq(lens, 1, i - 1)) + j]]

\* receive buffers of the given lengths, not yet written
EmptyViews(lens) == [i \in 1..Len(lens) |-> [j \in 1..lens[i] |-> 0]]

\* msg_iov and msg_iovlen with only the first view passed on
MsgIovFirstOnly(views) == [iov |-> views, iovlen |-> Min(1, Len(views))]

\* lines 43-49 and 338-344: msg_iov and msg_iovlen of the msghdr
MsgIov(views) == [iov |-> views, iovlen |-> Len(views)]

\* sendmsg gathers the bytes of the first msg_iovlen views, in order
RECURSIVE Gather(_, _)
Gather(iov, iovlen) ==
    IF iovlen = 0 THEN << >>
    ELSE Head(iov) \o Gather(Tail(iov), iovlen - 1)

\* recvmsg writes the bytes into the first msg_iovlen views, in order, each
\* view filled before the next is used
RECURSIVE Scatter(_, _, _)
Scatter(bytes, iov, iovlen) ==
    IF iovlen = 0 THEN iov
    ELSE LET n == Min(Len(bytes), Len(Head(iov)))
             filled == [j \in 1..Len(Head(iov)) |->
                           IF j <= n THEN bytes[j] ELSE Head(iov)[j]]
         IN  <<filled>> \o Scatter(SubSeq(bytes, n + 1, Len(bytes)), Tail(iov), iovlen - 1)

\* the bytes the first msg_iovlen views can take
RECURSIVE IovCapacity(_, _)
IovCapacity(iov, iovlen) ==
    IF iovlen = 0 THEN 0 ELSE Len(Head(iov)) + IovCapacity(Tail(iov), iovlen - 1)

\* a receive that leaves the rest of a truncated packet at the head of the queue
SeqpacketDequeueKeepsRest(q, taken) ==
    IF taken < Len(Head(q))
    THEN <<SubSeq(Head(q), taken + 1, Len(Head(q)))>> \o Tail(q)
    ELSE Tail(q)

\* a seqpacket receive takes the whole packet from the queue, whatever part
\* of it fitted the buffers
SeqpacketDequeue(q, taken) == Tail(q)

\* send_vectored(views): send_ancillary(fd, None, 0, views, &[], None) and the
\* sendmsg it makes, which queues one packet
ConnSend ==
    /\ pc \in {"idle", "conn"}
    /\ sender_open
    /\ sent < MaxPackets
    /\ \E lens \in ViewLengths :
        LET views == PayloadViews(sent + 1, lens)
            a == [views |-> [count |-> W(Len(views)), total |-> TotalLength(lens)],
                  fds_len |-> 0, creds |-> FALSE, flags |-> 0]
            m == MsgIov(views)
            packet == Gather(m.iov, m.iovlen)
        IN  /\ SendValidation(a).tag # "Err"
            /\ SendNeededCapacity(a.creds, a.fds_len) = 0
            /\ queue' = Append(queue, packet)
            /\ conn' = [op |-> "send", views |-> views, result |-> Ok(Len(packet)),
                        no |-> sent + 1, len |-> Len(packet)]
    /\ sent' = sent + 1
    /\ pc' = "conn"
    /\ UNCHANGED <<platform, callVars, sender_open>>

\* recv_vectored(bufs): recv_ancillary(fd, None, &mut 0, bufs, &mut []) and the
\* recvmsg it makes; the wrapper returns (received, datagram_truncated()).
\* With no packet queued recvmsg answers EAGAIN, or 0 bytes once the sending
\* end is closed
ConnRecv ==
    /\ pc \in {"idle", "conn"}
    /\ \E caps \in ViewLengths :
        LET bufs == EmptyViews(caps)
            a == [bufs |-> [count |-> W(Len(bufs)), cap |-> TotalLength(caps)],
                  anc_len |-> W(0), anc_addr |-> 0, flags |-> 0]
            m == MsgIov(bufs)
            capacity == IovCapacity(m.iov, m.iovlen)
        IN  /\ RecvValidation(a).tag # "Err"
            /\ IF queue = << >>
               THEN /\ conn' = [op |-> "recv", views |-> bufs, no |-> 0, len |-> 0,
                                result |-> IF sender_open THEN OsError("EAGAIN")
                                           ELSE Ok(<<0, FALSE>>)]
                    /\ queue' = queue
               ELSE LET packet == Head(queue)
                        received == Min(Len(packet), capacity)
                        filled == [RecvMsghdr(a) EXCEPT
                                     !.flags = IF Len(packet) > capacity THEN MSG_TRUNC ELSE 0]
                    IN  /\ conn' = [op |-> "recv",
                                    views |-> Scatter(packet, m.iov, m.iovlen),
                                    no |-> sent - Len(queue) + 1,
                                    len |-> Len(packet),
                                    result |-> Ok(<<received, datagram_truncated(filled)>>)]
                        /\ queue' = SeqpacketDequeue(queue, received)
    /\ pc' = "conn"
    /\ UNCHANGED <<platform, callVars, sent, sender_open>>

\* the sending end is dropped
ConnDrop ==
    /\ pc \in {"idle", "conn"}
    /\ sender_open
    /\ sender_open' = FALSE
    /\ conn' = [NoConnOp EXCEPT !.op = "drop"]
    /\ pc' = "conn"
    /\ UNCHANGED <<platform, callVars, queue, sent>>

(***************************************************************************)
(* The specification                                                       *)
(***************************************************************************)
Init ==
    /\ platform \in {"gnu", "musl"}
    /\ pc = "idle"
    /\ caller = "none"
    /\ sargs = [views |-> [count |-> W(0), total |-> 0], fds_len |-> 0,
                creds |-> FALSE, flags |-> 0]
    /\ needed_capacity = 0
    /\ msg = ZeroMsg
    /\ enc = << >>
    /\ pass_flags = 0
    /\ syscalls = FALSE
    /\ interrupts = 0
    /\ peer_closed = FALSE
    /\ sigpipe = FALSE
    /\ result = NoResult
    /\ heap = NoHeap
    /\ closes = << >>
    /\ rargs = [bufs |-> [count |-> W(0), cap |-> 0], anc_len |-> W(0),
                anc_addr |-> 0, flags |-> 0]
    /\ ctl = << >>
    /\ next_message = NULL
    /\ yielded = << >>
    /\ flags_out = 0
    /\ fd_buf = << >>
    /\ num_fds = 0
    /\ abuf = NoBuf
    /\ queue = << >>
    /\ sent = 0
    /\ sender_open = TRUE
    /\ conn = NoConnOp

Next ==
    \/ SendCall
    \/ SendMsg
    \/ BufWithCapacity
    \/ BufWithFdCapacity
    \/ BufDefault
    \/ BufDrop
    \/ RecvCall
    \/ RecvMsg
    \/ IterNext
    \/ IterDrop
    \/ RecvFdsCall
    \/ RecvFdsStep
    \/ RecvFdsReturn
    \/ ConnSend
    \/ ConnRecv
    \/ ConnDrop

Spec == Init /\ [][Next]_vars

\* the system calls return: a call that is issued completes
FairSpec == Spec /\ WF_vars(SendMsg) /\ WF_vars(RecvMsg)


(***************************************************************************)
(* Properties                                                              *)
(***************************************************************************)
Occurrences(seq, x) == Cardinality({ i \in DOMAIN seq : seq[i] = x })

\* the chain the OS wrote into the control buffer
DeliveredChain == CHOOSE ch \in Chains \cup CutChains : ChainWords(ch, 0) = ctl

\* the item next() yields for a delivered block whose descriptors follow
\* `before` earlier ones
ItemOf(b, before) ==
    CASE b.type = "rights" -> [kind |-> "Fds", fds |-> [i \in 1..b.n |-> NewFd(before + i)]]
      [] b.type = "creds" -> [kind |-> "Credentials", pid |-> 4711, uid |-> 1000, gid |-> 1000]
      [] OTHER -> [kind |-> "Unsupported"]

\* the items next() can yield for a delivered block: of a cut credentials
\* block the gid is not part of what was delivered
ItemsOf(b, before) ==
    IF b.type = "creds_cut"
    THEN { [kind |-> "Credentials", pid |-> 4711, uid |-> 1000, gid |-> g] : g \in StrayWords }
    ELSE { ItemOf(b, before) }

C2_RecvFdsKeepsOrCloses ==
    /\ pc \in {"rf_loop", "rf_done"} => num_fds <= Len(fd_buf)
    /\ (pc = "rf_done" /\ result.tag = "Ok") =>
        LET all == ChainFds(DeliveredChain, 0)
            k == Len(all)
            m == Len(fd_buf)
            kept == Min(k, m)
        IN  /\ result.val[2] = kept
            /\ SubSeq(fd_buf, 1, kept) = SubSeq(all, 1, kept)
            /\ closes = SubSeq(all, kept + 1, k)
            /\ \A i \in DOMAIN all :
                   Occurrences(closes, all[i]) + Occurrences(SubSeq(fd_buf, 1, kept), all[i]) = 1

\* recv_fds returned after more descriptors arrived than fd_buf holds
C2_Witness ==
    /\ pc = "rf_done"
    /\ result.tag = "Ok"
    /\ result.val[2] > 0
    /\ Len(closes) > 0

\* the capacity the control blocks of a send need: each block's header and
\* payload, and the padding between the credentials block and the descriptor
\* block when both are sent
RequiredCapacity(creds, fds_len) ==
    IF creds /\ fds_len > 0
    THEN CMSG_SPACE(SizeofUcred) + CMSG_LEN(SizeofRawFd * fds_len)
    ELSE IF creds THEN CMSG_LEN(SizeofUcred)
    ELSE IF fds_len > 0 THEN CMSG_LEN(SizeofRawFd * fds_len)
    ELSE 0

\* send_ancillary accepted its arguments and went on to encode them
SendAccepted == pc \in {"send_sys", "send_ub"} \/ (pc = "send_done" /\ syscalls)

\* C3: for accepted arguments the control length handed to the OS is exactly
\* the capacity the supplied items need.
C3_ControlLenIsRequiredCapacity ==
    SendAccepted =>
        /\ msg.controllen = W(needed_capacity)
        /\ needed_capacity = RequiredCapacity(sargs.creds, sargs.fds_len)

\* C4 (the half of it that says the buffer does not overflow): a buffer made
\* by with_fd_capacity(n), n > 0, holds one block of n descriptors, a header
\* and n descriptor-sized entries.
C4_FdCapacityHoldsBlock ==
    (pc = "buf_live" /\ abuf.ctor = "with_fd_capacity" /\ WLt(W(0), abuf.arg)) =>
        WLe(WAdd(W(SizeofCmsghdr), WMul(abuf.arg, SizeofRawFd)), abuf.capacity)

\* C5: send_ancillary has allocated a heap control buffer exactly when the
\* capacity the items need exceeds the 256-byte embedded region, and when it
\* has returned every allocation has been released once and nothing else has.
C5_HeapExactlyWhenNeeded ==
    /\ SendAccepted =>
          (heap.allocs = 1 <=> RequiredCapacity(sargs.creds, sargs.fds_len) > MAX_STACK_CAPACITY)
    /\ pc = "send_done" =>
          heap.live = 0 /\ heap.deallocs = heap.allocs /\ heap.null_deallocs = 0


\* the custom InvalidInput error of the input validation, returned before any
\* system call and any allocation
RejectedBeforeSyscall(done) ==
    /\ pc = done
    /\ result.tag = "Err"
    /\ result.kind = "InvalidInput"
    /\ result.repr = "Custom"
    /\ ~syscalls
    /\ heap.allocs = 0

\* C6: send_ancillary called with a byte-view count that does not fit
\* msg_iovlen or with more than 0xffffff descriptors, and recv_ancillary called
\* with a byte-view count that does not fit, or with a non-empty ancillary
\* buffer that is misaligned or longer than ControlLen can hold, have returned
\* a custom InvalidInput error without calling sendmsg / recvmsg and without
\* allocating.
C6_InvalidInputBeforeSyscall ==
    /\ ( /\ pc \in {"send_sys", "send_ub", "send_done"}
         /\ \/ (platform # "gnu" /\ WLt(CIntMax, sargs.views.count))
            \/ sargs.fds_len > 16777215 )
       => RejectedBeforeSyscall("send_done")
    /\ ( /\ caller = "user"
         /\ pc \in {"recv_sys", "recv_done", "iter", "iter_dropped"}
         /\ \/ (platform # "gnu" /\ WLt(CIntMax, rargs.bufs.count))
            \/ (rargs.anc_len # W(0) /\ rargs.anc_addr % 8 # 0)
            \/ (rargs.anc_len # W(0) /\ platform # "gnu" /\ WLt(UIntMax, rargs.anc_len)) )
       => RejectedBeforeSyscall("recv_done")

\* recv_ancillary has rejected a non-empty, misaligned ancillary buffer
C6_Witness ==
    /\ pc = "recv_done"
    /\ rargs.anc_len = W(24)
    /\ rargs.anc_addr = 4
    /\ result.tag = "Err"
    /\ result.what = "ancillary buffer is not properly aligned"

\* the truncation predicates agree with the flags the OS set, whatever else
\* it set
TruncationAsSet ==
    \E t \in {0, MSG_TRUNC}, c \in {0, MSG_CTRUNC}, o \in {0, 128 + MSG_CMSG_CLOEXEC} :
        /\ msg.flags = t + c + o
        /\ datagram_truncated(msg) = (t # 0)
        /\ ancillary_truncated(msg) = (c # 0)

\* C7: on the iterator a receive returned, datagram_truncated() is true
\* exactly when the OS set the payload-truncated flag and ancillary_truncated()
\* exactly when it set the ancillary-truncated flag, and a next() call changes
\* neither.
C7_TruncationFlagsIndependent ==
    /\ [](pc \in {"iter", "iter_dropped"} => TruncationAsSet)
    /\ [][ (pc = "iter" /\ pc' = "iter") =>
              /\ datagram_truncated(msg') = datagram_truncated(msg)
              /\ ancillary_truncated(msg') = ancillary_truncated(msg) ]_vars

\* after a next() call the payload is reported truncated and the ancillary
\* data is not
C7_Witness ==
    /\ pc = "iter"
    /\ Len(yielded) > 0
    /\ datagram_truncated(msg)
    /\ ~ancillary_truncated(msg)

\* a call has returned
Returned == pc \in {"send_done", "recv_done", "rf_done", "iter", "rf_loop", "iter_dropped"}

\* C8: no call returns the interruption of its system call; after an
\* interruption the system call is made again with the same msghdr and flags;
\* and a call whose system call is interrupted at most MaxInterrupts times
\* returns.
C8_InterruptionRetried ==
    /\ [](Returned => ~(result.tag = "Err" /\ result.kind = "Interrupted"))
    /\ [][ interrupts' > interrupts =>
              /\ pc' = pc
              /\ pc \in {"send_sys", "recv_sys"}
              /\ msg' = msg
              /\ (interrupts > 0 => pass_flags' = pass_flags) ]_vars
    /\ (pc = "send_sys" ~> pc = "send_done")
    /\ (pc = "recv_sys" ~> pc \in {"recv_done", "rf_done", "iter", "rf_loop"})

\* sendmsg has been interrupted and is about to be called again
C8_Witness ==
    /\ pc = "send_sys"
    /\ syscalls
    /\ interrupts >= 1

RequestedLength ==
    CASE abuf.ctor = "with_capacity" -> abuf.arg
      [] abuf.ctor = "default" -> W(MAX_STACK_CAPACITY)
      [] OTHER -> abuf.capacity

\* C10: an AncillaryBuf is the embedded region exactly when its capacity is
\* at most 256 and one heap allocation otherwise; its byte range has the
\* requested length; a zero-byte request allocates nothing; and when the buffer
\* has been dropped exactly one deallocation, of that allocation, has happened
\* if it was heap-backed and none if it was embedded.
C10_EmbeddedOrOneHeapBlock ==
    pc \in {"buf_live", "buf_dropped"} =>
        LET small == WLe(abuf.capacity, W(256))
        IN  /\ Deref(abuf).region = (IF small THEN "on_stack" ELSE "heap")
            /\ heap.allocs = (IF small THEN 0 ELSE 1)
            /\ Deref(abuf).len = RequestedLength
            /\ RequestedLength = W(0) => heap.allocs = 0
            /\ pc = "buf_dropped" =>
                  /\ heap.deallocs = (IF small THEN 0 ELSE 1)
                  /\ heap.null_deallocs = 0
                  /\ heap.live = 0

\* the position, in the concatenation of the views, of byte j of view i
PositionIn(views, i, j) == TotalLength([h \in 1..(i - 1) |-> Len(views[h])]) + j

\* C11: a send returns the total length of its views and queues their
\* concatenation; a receive of that packet leaves in the receive views, in
\* order, the first min(length, total capacity) bytes of it, unchanged, and
\* nothing else, however the bytes were cut into views on either side.
C11_VectoredRoundTrip ==
    /\ conn.op = "send" =>
          LET total == TotalLength([i \in DOMAIN conn.views |-> Len(conn.views[i])])
          IN  /\ conn.result = Ok(total)
              /\ queue # << >>
              /\ queue[Len(queue)] = [g \in 1..total |-> 10 * conn.no + g]
              /\ \A i \in DOMAIN conn.views : \A j \in DOMAIN conn.views[i] :
                    conn.views[i][j] = queue[Len(queue)][PositionIn(conn.views, i, j)]
    /\ (conn.op = "recv" /\ conn.no > 0) =>
          LET capacity == TotalLength([i \in DOMAIN conn.views |-> Len(conn.views[i])])
              n == Min(conn.len, capacity)
          IN  /\ conn.result.tag = "Ok"
              /\ conn.result.val[1] = n
              /\ \A i \in DOMAIN conn.views : \A j \in DOMAIN conn.views[i] :
                    conn.views[i][j] = IF PositionIn(conn.views, i, j) <= n
                                       THEN 10 * conn.no + PositionIn(conn.views, i, j)
                                       ELSE 0

\* a packet of three bytes, which takes two send views, has been received
\* whole into two views cut at another place
C11_Witness ==
    /\ conn.op = "recv"
    /\ conn.no = 1
    /\ conn.views = << <<11, 12>>, <<13, 0>> >>
    /\ conn.result = Ok(<<3, FALSE>>)

\* the last operation was a receive that took packet conn.no from the queue:
\* it returned min(length, capacity) bytes of that packet and truncated
\* exactly when the packet was longer than the buffers, and the queue holds the
\* packets sent after it, whole and in send order
TookOnePacket ==
    LET capacity == TotalLength([i \in DOMAIN conn.views |-> Len(conn.views[i])])
        n == Min(conn.len, capacity)
    IN  /\ conn.result.tag = "Ok"
        /\ conn.no >= 1
        /\ conn.result.val = <<n, conn.len > capacity>>
        /\ \A i \in DOMAIN conn.views : \A j \in DOMAIN conn.views[i] :
              conn.views[i][j] \in {0} \cup { 10 * conn.no + g : g \in 1..n }
        /\ Len(queue) = sent - conn.no
        /\ \A i \in DOMAIN queue : \A j \in DOMAIN queue[i] :
              queue[i][j] = 10 * (conn.no + i) + j

\* the last operation was a receive that found no packet and returned WouldBlock
FoundNoPacket ==
    /\ conn.result.tag = "Err"
    /\ conn.result.kind = "WouldBlock"
    /\ conn.no = 0
    /\ queue = << >>

\* the last operation sent an empty payload: it returned 0 and queued an
\* empty packet
SentEmptyPacket ==
    (conn.op = "send" /\ \A i \in DOMAIN conn.views : conn.views[i] = << >>) =>
        /\ conn.result = Ok(0)
        /\ queue # << >>
        /\ queue[Len(queue)] = << >>

\* C12, as stated: every receive either takes exactly one packet, the oldest,
\* returning min(length, capacity) bytes and truncated exactly when the packet
\* was longer, and leaving only later whole packets queued, or returns
\* WouldBlock; and a send of an empty payload returns 0.
C12_EveryReceiveTakesOnePacket ==
    /\ conn.op = "recv" => (TookOnePacket \/ FoundNoPacket)
    /\ SentEmptyPacket

\* C12, amended: as stated while a packet is queued or the sending end is
\* open; with no packet queued and the sending end closed a receive takes no
\* packet and returns 0 bytes, not truncated.
C12_ReceiveTakesOnePacketOrEnd ==
    /\ conn.op = "recv" =>
          \/ TookOnePacket
          \/ FoundNoPacket /\ sender_open
          \/ /\ conn.result = Ok(<<0, FALSE>>)
             /\ conn.no = 0
             /\ queue = << >>
             /\ ~sender_open
    /\ SentEmptyPacket

\* a receive into two bytes has taken a packet of three bytes, reported it
\* truncated and left only the following packet queued
C12_Witness ==
    /\ conn.op = "recv"
    /\ conn.no = 1
    /\ conn.len = 3
    /\ conn.result = Ok(<<2, TRUE>>)
    /\ queue = << <<21>> >>

\* the offsets of the block headers the iterator finds when it walks the
\* control data from off
RECURSIVE BlockOffsets(_, _, _)
BlockOffsets(c, controllen, off) ==
    IF off = NULL THEN << >>
    ELSE <<off>> \o BlockOffsets(c, controllen,
                                 CMSG_NXTHDR(controllen, off, [o \in Nat |-> WordAt(c, o)]))

\* the headers next() has been called on so far, by the caller or by the drop
VisitedBlocks ==
    LET offs == BlockOffsets(Memory(ctl, 0), msg.controllen, CMSG_FIRSTHDR(msg.controllen))
    IN  { i \in DOMAIN offs : next_message = NULL \/ offs[i] < next_message }

\* a receive whose control data the iterator has been walking
Iterating ==
    /\ pc \in {"iter", "iter_dropped", "iter_ub", "rf_loop", "rf_done"}
    /\ result.tag = "Ok"

\* C13: whatever the OS wrote and reported, every byte next() read for an
\* item it yielded or for the drop lies inside the first msg_controllen
\* bytes of the buffer, and a descriptor item has exactly
\* (cmsg_len - header length) / descriptor size descriptors.
C13_ReadsStayInsideExtent ==
    Iterating =>
        LET mem == Memory(ctl, 0)
            offs == BlockOffsets(mem, msg.controllen, CMSG_FIRSTHDR(msg.controllen))
        IN  /\ pc # "iter_ub"
            /\ \A i \in VisitedBlocks : WLe(W(NextReadEnd(mem, offs[i])), msg.controllen)
            /\ \A i \in 1..Len(yielded) :
                   yielded[i].kind = "Fds" =>
                       Len(yielded[i].fds) = (WordAt(mem, offs[i]) - SizeofCmsghdr) \div SizeofRawFd

\* C14: in an accepted send every block the encoder wrote, credentials first
\* and descriptors at the aligned end of the block before, lies inside the
\* selected control buffer and inside its first msg_controllen bytes, its
\* cmsg_len is the header size plus the payload size, and with no items no
\* buffer is selected, msg_controllen is 0 and nothing is encoded.
C14_EncoderStaysInsideBuffer ==
    SendAccepted =>
        /\ pc # "send_ub"
        /\ \A i \in DOMAIN enc :
               LET end == enc[i].off + SizeofCmsghdr + enc[i].data
               IN  /\ enc[i].off # NULL
                   /\ enc[i].off = (IF i = 1 THEN 0 ELSE CMSG_ALIGN(enc[i - 1].cmsg_len))
                   /\ end <= SendBufferSize(msg.control, needed_capacity)
                   /\ WLe(W(end), msg.controllen)
                   /\ enc[i].cmsg_len = SizeofCmsghdr + enc[i].data
        /\ Len(enc) = (IF sargs.creds THEN 1 ELSE 0) + (IF sargs.fds_len > 0 THEN 1 ELSE 0)
        /\ (sargs.creds /\ sargs.fds_len > 0) =>
               enc[1].type = SCM_CREDENTIALS /\ enc[2].type = SCM_RIGHTS
        /\ (~sargs.creds /\ sargs.fds_len = 0) =>
               msg.control = "null" /\ msg.controllen = W(0) /\ enc = << >>

====
